---- MODULE Spec2Model ----
(***************************************************************************)
(* Model of src/app.py: a Streamlit script (main) that supervises one      *)
(* background producer process (generate_data) through two mp.Event flags, *)
(* a locked mp.Value counter and an mp.Queue.                              *)
(*                                                                         *)
(* The controller is the script: every run of main() executes lines 45-146 *)
(* top to bottom, with at most one button reporting a click.  A button can *)
(* be clicked only if the browser shows it enabled, i.e. if its `disabled` *)
(* argument was False the last time the script rendered it.                *)
(*                                                                         *)
(* The worker is generate_data, one statement per step.  mp.Queue is the   *)
(* producer-side buffer filled by put() plus the pipe that a feeder thread *)
(* copies it into; empty() and get_nowait() look at the pipe only.  A      *)
(* process that has put items exits only after its feeder has flushed.     *)
(* Timestamps are left out of the Samples: no statement branches on them.  *)
(***************************************************************************)
EXTENDS Integers, Sequences, FiniteSets, TLC

VARIABLES
    stop_event,     \* st.session_state.stop_event (mp.Event)
    pause_event,    \* st.session_state.pause_event (mp.Event)
    counter,        \* st.session_state.counter.value
    counter_lock,   \* holder of counter.get_lock(): 0 free, -1 controller, pid
    feeder,         \* data_queue: per process, items put() but not yet in the pipe
    pipe,           \* data_queue: items in the pipe, visible to empty()/get_nowait()
    local_data,     \* st.session_state.local_data
    process,        \* st.session_state.process: None or a Process handle
    running,        \* st.session_state.running
    wpc,            \* per Process handle: position of generate_data
    step,           \* per process: local variable step of generate_data
    next_pid,       \* the next Process object to be created
    cpc,            \* position of the script run (line number of main)
    click,          \* the button that reports True in this script run
    start_enabled,  \* the browser shows Start enabled
    pause_enabled,  \* the browser shows Pause enabled
    clear_enabled,  \* the browser shows Clear enabled
    stop_incs,      \* history: line 18 executed since stop_event was last set
    stop_puts,      \* history: line 26 executed since stop_event was last set
    pause_incs,     \* history: line 18 executed since pause_event was last set
    pause_puts      \* history: line 26 executed since pause_event was last set

vars == <<stop_event, pause_event, counter, counter_lock, feeder, pipe,
          local_data, process, running, wpc, step, next_pid, cpc, click,
          start_enabled, pause_enabled, clear_enabled,
          stop_incs, stop_puts, pause_incs, pause_puts>>

shared == <<stop_event, pause_event, counter, counter_lock, feeder, pipe, wpc, step>>
session == <<local_data, process, running, next_pid>>
browser == <<start_enabled, pause_enabled, clear_enabled>>
history == <<stop_incs, stop_puts, pause_incs, pause_puts>>

\* Bounds
MaxSteps == 2
MaxProcs == 2

None == 0
Pids == 1..MaxProcs
FREE == 0
CONTROLLER == -1

\* Process.is_alive()
IsAlive(p) == wpc[p] \notin {"new", "dead"}

Live == {p \in Pids : IsAlive(p)}

\* the Sample dict built at lines 21-25
Sample(s, p) == [step |-> s, pid |-> p]

\* data_queue.empty()
QueueEmpty == pipe = <<>>

Init ==
    /\ stop_event = FALSE
    /\ pause_event = FALSE
    /\ counter = 0
    /\ counter_lock = FREE
    /\ feeder = [p \in Pids |-> <<>>]
    /\ pipe = <<>>
    /\ local_data = <<>>
    /\ process = None
    /\ running = FALSE
    /\ wpc = [p \in Pids |-> "new"]
    /\ step = [p \in Pids |-> 0]
    /\ next_pid = 1
    /\ cpc = "l58"
    /\ click = "none"
    /\ start_enabled = FALSE
    /\ pause_enabled = FALSE
    /\ clear_enabled = FALSE
    /\ stop_incs = 0
    /\ stop_puts = 0
    /\ pause_incs = 0
    /\ pause_puts = 0

----------------------------------------------------------------------------
(* generate_data, lines 14-29 *)

\* line 14 with the event consumed when it is seen set (an auto-reset event)
W14_ConsumesStop(p) ==
    /\ wpc[p] = "l14"
    /\ stop_event \/ counter < MaxSteps
    /\ wpc' = [wpc EXCEPT ![p] = IF stop_event THEN "exit" ELSE "l15"]
    /\ stop_event' = FALSE
    /\ UNCHANGED <<pause_event, counter, counter_lock, feeder, pipe, step>>
    /\ UNCHANGED <<session, cpc, click, browser>>
    /\ UNCHANGED history

\* line 14: while not stop_event.is_set()
W14(p) ==
    /\ wpc[p] = "l14"
    /\ stop_event \/ counter < MaxSteps
    /\ wpc' = [wpc EXCEPT ![p] = IF stop_event THEN "exit" ELSE "l15"]
    /\ UNCHANGED <<stop_event, pause_event, counter, counter_lock, feeder, pipe, step>>
    /\ UNCHANGED <<session, cpc, click, browser>>
    /\ UNCHANGED history

\* line 15: if not pause_event.is_set()
W15(p) ==
    /\ wpc[p] = "l15"
    /\ wpc' = [wpc EXCEPT ![p] = IF pause_event THEN "l29" ELSE "l17"]
    /\ UNCHANGED <<stop_event, pause_event, counter, counter_lock, feeder, pipe, step>>
    /\ UNCHANGED <<session, cpc, click, browser>>
    /\ UNCHANGED history

\* line 17 left out: lines 18-19 run without the lock being taken
W17_NoLock(p) ==
    /\ wpc[p] = "l17"
    /\ wpc' = [wpc EXCEPT ![p] = "l18"]
    /\ UNCHANGED <<stop_event, pause_event, counter, counter_lock, feeder, pipe, step>>
    /\ UNCHANGED <<session, cpc, click, browser>>
    /\ UNCHANGED history

\* line 17: with counter.get_lock()
W17(p) ==
    /\ wpc[p] = "l17"
    /\ counter_lock = FREE
    /\ counter_lock' = p
    /\ wpc' = [wpc EXCEPT ![p] = "l18"]
    /\ UNCHANGED <<stop_event, pause_event, counter, feeder, pipe, step>>
    /\ UNCHANGED <<session, cpc, click, browser>>
    /\ UNCHANGED history

\* line 18: counter.value += 1
W18(p) ==
    /\ wpc[p] = "l18"
    /\ counter' = counter + 1
    /\ wpc' = [wpc EXCEPT ![p] = "l19"]
    /\ stop_incs' = IF stop_event THEN stop_incs + 1 ELSE stop_incs
    /\ pause_incs' = IF pause_event THEN pause_incs + 1 ELSE pause_incs
    /\ UNCHANGED <<stop_event, pause_event, counter_lock, feeder, pipe, step>>
    /\ UNCHANGED <<session, cpc, click, browser, stop_puts, pause_puts>>

\* line 19: step = counter.value, and the end of the with block
W19(p) ==
    /\ wpc[p] = "l19"
    /\ step' = [step EXCEPT ![p] = counter]
    /\ counter_lock' = FREE
    /\ wpc' = [wpc EXCEPT ![p] = "l26"]
    /\ UNCHANGED <<stop_event, pause_event, counter, feeder, pipe>>
    /\ UNCHANGED <<session, cpc, click, browser>>
    /\ UNCHANGED history

\* lines 21-26: queue.put(data)
W26(p) ==
    /\ wpc[p] = "l26"
    /\ feeder' = [feeder EXCEPT ![p] = Append(@, Sample(step[p], p))]
    /\ wpc' = [wpc EXCEPT ![p] = "l27"]
    /\ stop_puts' = IF stop_event THEN stop_puts + 1 ELSE stop_puts
    /\ pause_puts' = IF pause_event THEN pause_puts + 1 ELSE pause_puts
    /\ UNCHANGED <<stop_event, pause_event, counter, counter_lock, pipe, step>>
    /\ UNCHANGED <<session, cpc, click, browser, stop_incs, pause_incs>>

\* line 27 followed by line 15: stop_event is not looked at after an emission
W27_SkipStopCheck(p) ==
    /\ wpc[p] = "l27"
    /\ wpc' = [wpc EXCEPT ![p] = "l15"]
    /\ UNCHANGED <<stop_event, pause_event, counter, counter_lock, feeder, pipe, step>>
    /\ UNCHANGED <<session, cpc, click, browser>>
    /\ UNCHANGED history

\* line 27: sleep(2)
W27(p) ==
    /\ wpc[p] = "l27"
    /\ wpc' = [wpc EXCEPT ![p] = "l14"]
    /\ UNCHANGED <<stop_event, pause_event, counter, counter_lock, feeder, pipe, step>>
    /\ UNCHANGED <<session, cpc, click, browser>>
    /\ UNCHANGED history

\* line 29 without the else: the emission follows the pause sleep
W29_NoElse(p) ==
    /\ wpc[p] = "l29"
    /\ wpc' = [wpc EXCEPT ![p] = "l17"]
    /\ UNCHANGED <<stop_event, pause_event, counter, counter_lock, feeder, pipe, step>>
    /\ UNCHANGED <<session, cpc, click, browser>>
    /\ UNCHANGED history

\* line 29 as an inner loop `while pause_event.is_set(): sleep(0.1)`
W29_InnerLoop(p) ==
    /\ wpc[p] = "l29"
    /\ wpc' = [wpc EXCEPT ![p] = IF pause_event THEN "l29" ELSE "l14"]
    /\ UNCHANGED <<stop_event, pause_event, counter, counter_lock, feeder, pipe, step>>
    /\ UNCHANGED <<session, cpc, click, browser>>
    /\ UNCHANGED history

\* line 29 followed by a break: a paused worker leaves the loop
W29_Break(p) ==
    /\ wpc[p] = "l29"
    /\ wpc' = [wpc EXCEPT ![p] = "exit"]
    /\ UNCHANGED <<stop_event, pause_event, counter, counter_lock, feeder, pipe, step>>
    /\ UNCHANGED <<session, cpc, click, browser>>
    /\ UNCHANGED history

\* line 29: sleep(0.1)
W29(p) ==
    /\ wpc[p] = "l29"
    /\ wpc' = [wpc EXCEPT ![p] = "l14"]
    /\ UNCHANGED <<stop_event, pause_event, counter, counter_lock, feeder, pipe, step>>
    /\ UNCHANGED <<session, cpc, click, browser>>
    /\ UNCHANGED history

\* the queue's feeder thread of process p: one buffered item into the pipe
Feed(p) ==
    /\ IsAlive(p)
    /\ feeder[p] # <<>>
    /\ pipe' = Append(pipe, Head(feeder[p]))
    /\ feeder' = [feeder EXCEPT ![p] = Tail(@)]
    /\ UNCHANGED <<stop_event, pause_event, counter, counter_lock, wpc, step>>
    /\ UNCHANGED <<session, cpc, click, browser>>
    /\ UNCHANGED history

\* generate_data returns: the process ends once its feeder thread has flushed
WExit(p) ==
    /\ wpc[p] = "exit"
    /\ feeder[p] = <<>>
    /\ wpc' = [wpc EXCEPT ![p] = "dead"]
    /\ UNCHANGED <<stop_event, pause_event, counter, counter_lock, feeder, pipe, step>>
    /\ UNCHANGED <<session, cpc, click, browser>>
    /\ UNCHANGED history

generate_data(p) ==
    \/ W14(p) \/ W15(p) \/ W17(p) \/ W18(p) \/ W19(p)
    \/ W26(p) \/ W27(p) \/ W29(p) \/ WExit(p)

----------------------------------------------------------------------------
(* main, lines 45-146 *)

\* a button the browser shows enabled is clicked: the script runs with it True
Click(b) ==
    /\ cpc = "idle"
    /\ \/ b = "start" /\ start_enabled /\ next_pid <= MaxProcs
       \/ b = "pause" /\ pause_enabled
       \/ b = "clear" /\ clear_enabled
    /\ click' = b
    /\ cpc' = "l58"
    /\ UNCHANGED <<shared, session, browser>>
    /\ UNCHANGED history

\* lines 143-146: st.rerun() while running, no button clicked
Rerun ==
    /\ cpc = "idle"
    /\ running
    /\ click' = "none"
    /\ cpc' = "l58"
    /\ UNCHANGED <<shared, session, browser>>
    /\ UNCHANGED history

\* lines 58-59 without the check of line 59
C58_NoAliveCheck ==
    /\ cpc = "l58"
    /\ start_enabled' = ~running
    /\ cpc' = IF click = "start" THEN "l61" ELSE "l78"
    /\ UNCHANGED <<shared, session, click, pause_enabled, clear_enabled>>
    /\ UNCHANGED history

\* lines 58-59 with line 59 reduced to `process is None`
C58_NoneOnly ==
    /\ cpc = "l58"
    /\ start_enabled' = ~running
    /\ cpc' = IF click = "start" /\ process = None THEN "l61" ELSE "l78"
    /\ UNCHANGED <<shared, session, click, pause_enabled, clear_enabled>>
    /\ UNCHANGED history

\* lines 58-59: the Start button and the guard of its handler
C58 ==
    /\ cpc = "l58"
    /\ start_enabled' = ~running
    /\ cpc' = IF click = "start" /\ (process = None \/ ~IsAlive(process))
              THEN "l61" ELSE "l78"
    /\ UNCHANGED <<shared, session, click, pause_enabled, clear_enabled>>
    /\ UNCHANGED history

\* lines 61-62 without line 62: pause_event is left as it was
C61_KeepPause ==
    /\ cpc = "l61"
    /\ stop_event' = FALSE
    /\ cpc' = "l65"
    /\ stop_incs' = 0 /\ stop_puts' = 0 /\ pause_incs' = 0 /\ pause_puts' = 0
    /\ UNCHANGED <<pause_event, counter, counter_lock, feeder, pipe, wpc, step>>
    /\ UNCHANGED <<session, click, browser>>

\* lines 61-62: stop_event.clear(); pause_event.clear()
C61 ==
    /\ cpc = "l61"
    /\ stop_event' = FALSE
    /\ pause_event' = FALSE
    /\ cpc' = "l65"
    /\ stop_incs' = 0 /\ stop_puts' = 0 /\ pause_incs' = 0 /\ pause_puts' = 0
    /\ UNCHANGED <<counter, counter_lock, feeder, pipe, wpc, step>>
    /\ UNCHANGED <<session, click, browser>>

\* lines 65-74: process = mp.Process(...); process.start()
C65 ==
    /\ cpc = "l65"
    /\ process' = next_pid
    /\ next_pid' = next_pid + 1
    /\ wpc' = [wpc EXCEPT ![next_pid] = "l14"]
    /\ cpc' = "l75"
    /\ UNCHANGED <<stop_event, pause_event, counter, counter_lock, feeder, pipe, step>>
    /\ UNCHANGED <<local_data, running, click, browser>>
    /\ UNCHANGED history

\* line 74 raises: the Process object is stored, no process runs, the run ends
C65Fail ==
    /\ cpc = "l65"
    /\ process' = next_pid
    /\ next_pid' = next_pid + 1
    /\ cpc' = "idle"
    /\ pause_enabled' = FALSE
    /\ clear_enabled' = FALSE
    /\ UNCHANGED <<shared, local_data, running, click, start_enabled>>
    /\ UNCHANGED history

\* line 75: running = True
C75 ==
    /\ cpc = "l75"
    /\ running' = TRUE
    /\ cpc' = "l78"
    /\ UNCHANGED <<shared, local_data, process, next_pid, click, browser>>
    /\ UNCHANGED history

\* lines 78-82: the Pause button and its handler
C78 ==
    /\ cpc = "l78"
    /\ pause_enabled' = running
    /\ pause_event' = IF click = "pause" THEN ~pause_event ELSE pause_event
    /\ cpc' = "l85"
    /\ pause_incs' = IF click = "pause" THEN 0 ELSE pause_incs
    /\ pause_puts' = IF click = "pause" THEN 0 ELSE pause_puts
    /\ UNCHANGED <<stop_event, counter, counter_lock, feeder, pipe, wpc, step>>
    /\ UNCHANGED <<session, click, start_enabled, clear_enabled, stop_incs, stop_puts>>

\* line 85: the Clear button
C85 ==
    /\ cpc = "l85"
    /\ clear_enabled' = (Len(local_data) > 0 \/ running)
    /\ cpc' = IF click = "clear" THEN "l87" ELSE "l118"
    /\ UNCHANGED <<shared, session, click, start_enabled, pause_enabled>>
    /\ UNCHANGED history

\* lines 87-88: if process and process.is_alive(): stop_event.set()
C87 ==
    /\ cpc = "l87"
    /\ IF process # None /\ IsAlive(process)
       THEN stop_event' = TRUE /\ cpc' = "l89" /\ stop_incs' = 0 /\ stop_puts' = 0
       ELSE stop_event' = stop_event /\ cpc' = "l92" /\ UNCHANGED <<stop_incs, stop_puts>>
    /\ UNCHANGED <<pause_event, counter, counter_lock, feeder, pipe, wpc, step>>
    /\ UNCHANGED <<session, click, browser, pause_incs, pause_puts>>

\* line 89: process.join()
C89 ==
    /\ cpc = "l89"
    /\ ~IsAlive(process)
    /\ cpc' = "l92"
    /\ UNCHANGED <<shared, session, click, browser>>
    /\ UNCHANGED history

\* line 92 left out
C92_KeepData ==
    /\ cpc = "l92"
    /\ cpc' = "l93"
    /\ UNCHANGED <<shared, session, click, browser>>
    /\ UNCHANGED history

\* line 92: local_data.clear()
C92 ==
    /\ cpc = "l92"
    /\ local_data' = <<>>
    /\ cpc' = "l93"
    /\ UNCHANGED <<shared, process, running, next_pid, click, browser>>
    /\ UNCHANGED history

\* line 93: with counter.get_lock()
C93 ==
    /\ cpc = "l93"
    /\ counter_lock = FREE
    /\ counter_lock' = CONTROLLER
    /\ cpc' = "l94"
    /\ UNCHANGED <<stop_event, pause_event, counter, feeder, pipe, wpc, step>>
    /\ UNCHANGED <<session, click, browser>>
    /\ UNCHANGED history

\* line 94 left out: the lock is released with the counter as it was
C94_NoReset ==
    /\ cpc = "l94"
    /\ counter_lock' = FREE
    /\ cpc' = "l97"
    /\ UNCHANGED <<stop_event, pause_event, counter, feeder, pipe, wpc, step>>
    /\ UNCHANGED <<session, click, browser>>
    /\ UNCHANGED history

\* line 94: counter.value = 0, and the end of the with block
C94 ==
    /\ cpc = "l94"
    /\ counter' = 0
    /\ counter_lock' = FREE
    /\ cpc' = "l97"
    /\ UNCHANGED <<stop_event, pause_event, feeder, pipe, wpc, step>>
    /\ UNCHANGED <<session, click, browser>>
    /\ UNCHANGED history

\* line 97: process = None
C97 ==
    /\ cpc = "l97"
    /\ process' = None
    /\ cpc' = "l98"
    /\ UNCHANGED <<shared, local_data, running, next_pid, click, browser>>
    /\ UNCHANGED history

\* line 98 left out
C98_KeepRunning ==
    /\ cpc = "l98"
    /\ cpc' = "l101"
    /\ UNCHANGED <<shared, session, click, browser>>
    /\ UNCHANGED history

\* line 98: running = False
C98 ==
    /\ cpc = "l98"
    /\ running' = FALSE
    /\ cpc' = "l101"
    /\ UNCHANGED <<shared, local_data, process, next_pid, click, browser>>
    /\ UNCHANGED history

\* lines 101-105 left out
C101_NoDrain ==
    /\ cpc = "l101"
    /\ cpc' = "l118"
    /\ UNCHANGED <<shared, session, click, browser>>
    /\ UNCHANGED history

\* lines 101-105 with `if` for `while`: one item is taken out at most
C101_Once ==
    /\ cpc = "l101"
    /\ pipe' = IF QueueEmpty THEN pipe ELSE Tail(pipe)
    /\ cpc' = "l118"
    /\ UNCHANGED <<stop_event, pause_event, counter, counter_lock, feeder, wpc, step>>
    /\ UNCHANGED <<session, click, browser>>
    /\ UNCHANGED history

\* lines 101-105: while not data_queue.empty(): data_queue.get_nowait()
C101 ==
    /\ cpc = "l101"
    /\ IF QueueEmpty
       THEN pipe' = pipe /\ cpc' = "l118"
       ELSE pipe' = Tail(pipe) /\ cpc' = "l101"
    /\ UNCHANGED <<stop_event, pause_event, counter, counter_lock, feeder, wpc, step>>
    /\ UNCHANGED <<session, click, browser>>
    /\ UNCHANGED history

\* line 118: if running
C118 ==
    /\ cpc = "l118"
    /\ cpc' = IF running THEN "l119" ELSE "idle"
    /\ UNCHANGED <<shared, session, click, browser>>
    /\ UNCHANGED history

\* lines 119-126 with line 123 raising: the item is taken out and dropped
C119_Swallow ==
    /\ cpc = "l119"
    /\ IF QueueEmpty
       THEN pipe' = pipe /\ cpc' = "idle"
       ELSE pipe' = Tail(pipe) /\ cpc' = "l119"
    /\ UNCHANGED <<stop_event, pause_event, counter, counter_lock, feeder, wpc, step>>
    /\ UNCHANGED <<session, click, browser>>
    /\ UNCHANGED history

\* lines 119-126: while not data_queue.empty(): local_data.append(get_nowait())
C119 ==
    /\ cpc = "l119"
    /\ IF QueueEmpty
       THEN /\ pipe' = pipe
            /\ local_data' = local_data
            /\ cpc' = "idle"
       ELSE /\ pipe' = Tail(pipe)
            /\ local_data' = Append(local_data, Head(pipe))
            /\ cpc' = "l119"
    /\ UNCHANGED <<stop_event, pause_event, counter, counter_lock, feeder, wpc, step>>
    /\ UNCHANGED <<process, running, next_pid, click, browser>>
    /\ UNCHANGED history

main ==
    \/ C58 \/ C61 \/ C65 \/ C65Fail \/ C75 \/ C78 \/ C85
    \/ C87 \/ C89 \/ C92 \/ C93 \/ C94 \/ C97 \/ C98 \/ C101
    \/ C118 \/ C119 \/ Rerun

Next ==
    \/ \E b \in {"start", "pause", "clear"} : Click(b)
    \/ main
    \/ \E p \in Pids : generate_data(p)
    \/ \E p \in Pids : Feed(p)

Spec == Init /\ [][Next]_vars

----------------------------------------------------------------------------
(* Properties *)

\* the lines of the Clear handler
ClearLines == {"l87", "l89", "l92", "l93", "l94", "l97", "l98", "l101"}

\* the handoff channel holds nothing, in the pipe or in any process's feeder
ChannelEmpty == pipe = <<>> /\ \A p \in Pids : feeder[p] = <<>>

\* C1: whatever buttons are clicked and however the worker's steps interleave
\* with the script, at most one generate_data process is alive.
C1_AtMostOneWorker == Cardinality(Live) <= 1

\* a second process is alive after the first was started and cleared
C1_Witness == wpc[1] = "dead" /\ Live = {2}

\* the state clear() leaves behind
Cleared == local_data = <<>> /\ counter = 0 /\ ~running /\ ChannelEmpty

\* a step of the Clear handler from a cleared state changes nothing clear() resets
ClearAgainKeeps ==
    cpc \in ClearLines /\ Cleared
        => UNCHANGED <<local_data, counter, running, pipe, feeder>>

\* C2: when the Clear handler has run to its end (line 105), local_data is
\* empty, counter is 0, running is False and the queue is empty; and a Clear
\* handler that starts in such a state changes none of these on any step.
C2_ClearResets ==
    /\ [](cpc = "l118" /\ click = "clear" => Cleared)
    /\ [][ClearAgainKeeps]_vars

\* Clear has returned after being clicked with nothing left to clear (the
\* button was rendered disabled in this run), a process having run before
C2_Witness ==
    /\ cpc = "l118" /\ click = "clear" /\ ~clear_enabled
    /\ wpc[1] = "dead"

\* C3: the steps in local_data, in order, are 1, 2, 3, ... without gap or
\* duplicate.
C3_BufferConsecutive == \A i \in 1..Len(local_data) : local_data[i].step = i

\* the second run has delivered two Samples
C3_Witness == process = 2 /\ Len(local_data) >= 2

\* C4: every Sample in local_data was produced by the process of the latest
\* Start; nothing put by an earlier process survives a Clear into local_data.
C4_NoResidualLeak ==
    \A i \in 1..Len(local_data) : process # None /\ local_data[i].pid = process

\* the second run has delivered a Sample although the first process had
\* emitted more than had been drained when it was cleared
C4_Witness ==
    /\ process = 2 /\ local_data # <<>>
    /\ step[1] = MaxSteps

\* C10: in every state, inside the handlers too, len(local_data) <= counter.
C10_BufferWithinCounter == Len(local_data) <= counter

\* the Clear handler is between emptying local_data and resetting counter
C10_Witness == cpc = "l94" /\ counter > 0 /\ local_data = <<>>

\* the worker executes line 18 or line 26 in this step
Emits == counter' > counter \/ \E p \in Pids : Len(feeder'[p]) > Len(feeder[p])

NoEmitUnderStop == stop_event => ~Emits

\* C5 as claimed: no step increments counter or puts on the queue while
\* stop_event is set, also when it was set after the worker's check of line 14.
C5_NeverEmitsWhileStopped == [][NoEmitUnderStop]_vars

\* C5 amended: after stop_event is set the worker executes line 18 at most
\* once and line 26 at most once, i.e. at most the Sample of the iteration
\* that had passed line 14 is emitted.
C5_AtMostOneLateSample == stop_incs <= 1 /\ stop_puts <= 1

\* stop_event was set right after the check of line 14 and the worker has
\* since incremented and put
C5_Witness == stop_event /\ stop_incs = 1 /\ stop_puts = 1

NoEmitUnderPause == pause_event => ~Emits

\* C7 as claimed: no step increments counter or puts on the queue while
\* pause_event is set, also when it was set after the worker's check of line 15.
C7_NeverEmitsWhilePaused == [][NoEmitUnderPause]_vars

\* a live worker stays alive in every step taken while stop_event is clear
StaysAliveUnlessStopped ==
    \A p \in Pids : IsAlive(p) /\ ~stop_event => IsAlive(p)'

\* C7 amended: after pause_event is set the worker executes line 18 at most
\* once and line 26 at most once (the iteration that had passed line 15), and
\* no worker ends while stop_event is clear, so pausing alone ends none.
C7_PausedWorker ==
    /\ [](pause_incs <= 1 /\ pause_puts <= 1)
    /\ [][StaysAliveUnlessStopped]_vars

\* pause_event was set right after the check of line 15, the worker has
\* emitted that one Sample and now sits in the pause sleep, alive
C7_Witness ==
    /\ pause_event /\ ~stop_event /\ pause_incs = 1 /\ pause_puts = 1
    /\ \E p \in Pids : wpc[p] = "l29"

\* the operating system runs every live process, the feeder threads and the
\* script (which reruns itself while running); the user need not click
LiveSpec ==
    /\ Spec
    /\ WF_vars(main)
    /\ \A p \in Pids : WF_vars(generate_data(p)) /\ WF_vars(Feed(p))

\* C6: whenever the Clear handler waits in process.join() (line 89), the
\* worker ends and the join returns.
C6_JoinReturns == (cpc = "l89") ~> (cpc = "l92")

\* Clear waits in join() for a worker that sits in its pause sleep
C6_Witness == cpc = "l89" /\ process # None /\ wpc[process] = "l29"

\* C8: a worker in its pause sleep with pause_event cleared again goes on to
\* put a new Sample (line 26 done, at line 27), unless a flag is set again.
C8_ResumeEmits ==
    \A p \in Pids :
        (wpc[p] = "l29" /\ ~pause_event /\ ~stop_event)
            ~> (wpc[p] = "l27" \/ pause_event \/ stop_event)

\* the worker is in the pause sleep and Pause has been clicked again
C8_Witness ==
    /\ ~pause_event /\ ~stop_event /\ click = "pause" /\ cpc = "l85"
    /\ \E p \in Pids : wpc[p] = "l29"

\* the Samples the bounded model can produce
Samples == [step : 1..(MaxSteps + 1), pid : Pids]

InSeq(s, q) == \E i \in 1..Len(q) : q[i] = s

InChannel(s) == InSeq(s, pipe) \/ \E p \in Pids : InSeq(s, feeder[p])

\* no Sample is twice in local_data, or in local_data and still in the queue
AppendedOnce ==
    /\ \A i, j \in 1..Len(local_data) : i # j => local_data[i] # local_data[j]
    /\ \A i \in 1..Len(local_data) : ~InChannel(local_data[i])

\* C9: every Sample put on the queue reaches local_data unless Clear is
\* clicked first, also when a drain found the pipe empty while the Sample was
\* still with the feeder; and it is in local_data once.
C9_EveryPutIsDrained ==
    /\ []AppendedOnce
    /\ \A s \in Samples :
          InChannel(s) ~> (InSeq(s, local_data) \/ cpc \in ClearLines)

\* the drain loop has ended on an empty pipe while a Sample was still with
\* the feeder thread
C9_Witness ==
    /\ cpc = "idle" /\ running /\ click # "clear" /\ pipe = <<>>
    /\ \E p \in Pids : feeder[p] # <<>>

\* the Clear handler has run to its end (line 105)
ClearReturned == cpc = "l118" /\ click = "clear"

\* C11 as claimed: when Clear has returned, counter is 0, the queue is empty
\* and stop_event and pause_event are both clear.
C11_ClearResetsFlags ==
    ClearReturned => counter = 0 /\ ChannelEmpty /\ ~stop_event /\ ~pause_event

\* no line of the Clear handler changes pause_event or clears stop_event
ClearKeepsFlags ==
    cpc \in ClearLines => pause_event' = pause_event /\ (stop_event => stop_event')

\* C11 amended: when Clear has returned, counter is 0, the lock is free and the
\* queue is empty; Clear leaves pause_event as it found it and never clears
\* stop_event (it is the next Start that clears both flags).
C11_ClearResetsData ==
    /\ [](ClearReturned => counter = 0 /\ counter_lock = FREE /\ ChannelEmpty)
    /\ [][ClearKeepsFlags]_vars

\* Clear has returned after stopping a paused worker that had emitted: both
\* flags are still set
C11_Witness ==
    /\ ClearReturned /\ stop_event /\ pause_event
    /\ \E p \in Pids : wpc[p] = "dead" /\ step[p] > 0

\* the step of line 75 that ends a Start handler
StartReturns == cpc = "l75" /\ cpc' = "l78"

\* after line 75 of a Start handler: flags clear, running, one live worker
\* which is not in the pause branch and has not left its loop
StartPost ==
    StartReturns =>
        /\ ~stop_event' /\ ~pause_event' /\ running'
        /\ process' # None /\ Live' = {process'}
        /\ wpc'[process'] \notin {"l29", "exit"}

\* C12: a Start handler that found no live worker ends with stop_event and
\* pause_event clear, running True and exactly one live process, which is in
\* the emitting branch of its loop.
C12_StartPost == [][StartPost]_vars

\* a second Start has returned after the first worker was started and cleared
C12_Witness ==
    /\ cpc = "l78" /\ click = "start" /\ running
    /\ process = 2 /\ wpc[1] = "dead" /\ wpc[2] # "new"

\* the script takes a step
ScriptStep == cpc' # cpc

\* Start reports a click while the stored process is alive
StartWhileAlive ==
    cpc = "l58" /\ click = "start" /\ process # None /\ IsAlive(process)

\* the script's step from there skips the handler and changes no state of
\* the session or of the shared objects
StartNoOp ==
    StartWhileAlive /\ ScriptStep =>
        /\ cpc' = "l78"
        /\ UNCHANGED <<stop_event, pause_event, counter, counter_lock, local_data,
                       pipe, feeder, process, running, wpc, step, next_pid>>

\* C13: a Start click that arrives while the stored process is alive runs
\* none of lines 61-75: flags, counter, local_data, queue, process handle and
\* running stay as they are and nothing is spawned.
C13_StartIdempotent == [][StartNoOp]_vars

\* Start was clicked while running (the button is rendered disabled in this
\* run) and the script has passed the handler with the same single worker
C13_Witness ==
    /\ cpc = "l78" /\ click = "start" /\ ~start_enabled /\ running
    /\ next_pid = 2 /\ Live = {1}

\* the lines of the Start handler
StartLines == {"l61", "l65", "l75"}

\* C14: outside the Start and Clear handlers, running is True exactly when a
\* process handle is stored and its process is alive.
C14_RunningIffAlive ==
    cpc \notin StartLines \cup ClearLines =>
        (running <=> process # None /\ IsAlive(process))

\* the script is idle after a Clear that stopped a worker
C14_Witness ==
    /\ cpc = "idle" /\ click = "clear" /\ ~running /\ process = None
    /\ wpc[1] = "dead"

\* who is inside a `with counter.get_lock()` block holds the lock, and a
\* worker about to put carries the counter value its own increment produced
LockHeld ==
    /\ \A p \in Pids : wpc[p] \in {"l18", "l19"} <=> counter_lock = p
    /\ cpc = "l94" <=> counter_lock = CONTROLLER
    /\ \A p \in Pids : wpc[p] = "l26" => step[p] = counter /\ step[p] > 0

\* a step that changes counter is line 18 of the worker holding the lock or
\* line 94 of the script holding the lock
WritesUnderLock ==
    counter' # counter =>
        \/ \E p \in Pids : counter_lock = p /\ wpc[p] = "l18" /\ wpc'[p] = "l19"
        \/ counter_lock = CONTROLLER /\ cpc = "l94" /\ cpc' = "l97"

\* C15: counter is written only by the holder of its lock (line 18 by the
\* worker, line 94 by the script), the lock has one holder at a time, and the
\* step a worker puts is the value its own increment produced.
C15_CounterUnderLock == []LockHeld /\ [][WritesUnderLock]_vars

\* the worker holds the lock after its second increment, the script being in
\* the middle of a run
C15_Witness ==
    /\ \E p \in Pids : counter_lock = p /\ wpc[p] = "l19" /\ counter = 2
    /\ cpc = "l119"

\* a step that changes a flag is line 61-62, 78-82 or 88 of the script
FlagsWrittenByScript ==
    stop_event' # stop_event \/ pause_event' # pause_event =>
        /\ ScriptStep
        /\ cpc \in {"l61", "l78", "l87"}
        /\ UNCHANGED <<wpc, step, counter, feeder>>

\* C16: no step of generate_data changes stop_event or pause_event; they are
\* written by the Start, Pause and Clear handlers only.
C16_WorkerReadsFlags == [][FlagsWrittenByScript]_vars

\* a worker has read stop_event set and left its loop
C16_Witness == stop_event /\ \E p \in Pids : wpc[p] = "exit"

\* the script's step through the Pause handler with Pause clicked
PauseClicked == cpc = "l78" /\ click = "pause" /\ ScriptStep

\* that step flips pause_event if running and leaves it otherwise, and
\* changes nothing else of the session or the shared objects
PauseToggles ==
    PauseClicked =>
        /\ pause_event' = (IF running THEN ~pause_event ELSE pause_event)
        /\ UNCHANGED <<stop_event, counter, counter_lock, local_data, pipe,
                       feeder, process, running, wpc, step, next_pid>>

\* C17: a Pause click is a no-op when not running; when running it flips
\* pause_event and changes nothing else, so that two clicks restore it.
C17_PauseToggle == [][PauseToggles]_vars

\* the stored handle is a Process whose start() raised
SpawnFailed == process # None /\ wpc[process] = "new"

\* the step in which process.start() raises ends the script run (the
\* exception leaves main) without line 75
FailureSurfaces ==
    cpc = "l65" /\ ScriptStep /\ wpc' = wpc => cpc' = "idle" /\ ~running'

\* a Start click that finds the failed handle enters the handler again
RetrySpawns ==
    SpawnFailed /\ cpc = "l58" /\ click = "start" /\ ScriptStep => cpc' = "l61"

\* C18: when process.start() raises, the script run ends there with running
\* False and no live worker, and the next Start click runs the handler again
\* instead of being skipped by line 59.
C18_SpawnFailure ==
    /\ [](SpawnFailed => ~running /\ Live = {})
    /\ [][FailureSurfaces]_vars
    /\ [][RetrySpawns]_vars

\* after a failed spawn Start was clicked again and the handler has been entered
C18_Witness == SpawnFailed /\ cpc = "l61" /\ click = "start"

\* C19: outside the Start and Clear handlers, not running implies that
\* local_data is empty, the queue is empty and counter is 0; so the condition
\* that enables Clear (line 85) is then equivalent to running.
C19_StoppedIsClean ==
    cpc \notin StartLines \cup ClearLines =>
        /\ ~running => local_data = <<>> /\ ChannelEmpty /\ counter = 0
        /\ (Len(local_data) > 0 \/ running) <=> running

\* the script is idle and shows Clear disabled after a run that had emitted
\* was cleared
C19_Witness ==
    /\ cpc = "idle" /\ ~running /\ ~clear_enabled
    /\ \E p \in Pids : wpc[p] = "dead" /\ step[p] > 0

\* the feeders of processes 1..n, one after the other
RECURSIVE Buffered(_)
Buffered(n) == IF n = 0 THEN <<>> ELSE Buffered(n - 1) \o feeder[n]

\* the Samples delivered and those still in the queue, oldest first
Emitted == local_data \o pipe \o Buffered(MaxProcs)

\* the workers that have incremented counter and not yet put their Sample
InFlight == {p \in Pids : wpc[p] \in {"l19", "l26"}}

\* C20: outside the Clear handler, the steps of local_data followed by those
\* in the queue are exactly 1..k, where k is counter, less one while the
\* worker is between its increment (line 18) and its put (line 26).
C20_SamplesConserved ==
    cpc \notin ClearLines =>
        /\ Len(Emitted) = counter - Cardinality(InFlight)
        /\ \A i \in 1..Len(Emitted) : Emitted[i].step = i

\* one Sample is in local_data, the next one is still with the feeder after
\* a drain, and the script is idle
C20_Witness ==
    /\ cpc = "idle" /\ Len(local_data) = 1 /\ pipe = <<>>
    /\ \E p \in Pids : Len(feeder[p]) = 1 /\ feeder[p][1].step = 2

====
